---- MODULE Spec2Model ----
(***************************************************************************)
(* A model of the OAuth token validation flow (src/server/oauth.py) and    *)
(* of the search / get_document tools built on it                          *)
(* (src/server/mcp_server.py, src/server/solr_client.py).                  *)
(*                                                                         *)
(* The program is asyncio code: a coroutine runs without interruption      *)
(* until it awaits a network call.  Every action below is therefore the    *)
(* code of one caller between two such suspension points.                  *)
(***************************************************************************)
EXTENDS Integers, Sequences, FiniteSets, TLC

(***************************************************************************)
(* Bounds of the model.                                                    *)
(***************************************************************************)
NumCallers == 2
MaxTime == 3
TicksPerHour == 2
MaxCalls == 3
\* check_scopes inputs: characters of a scope string, characters of a scope
\* name, names in a list of scopes
MaxScopeLen == 4
MaxNameLen == 2
MaxScopes == 2

(***************************************************************************)
(* Program constants.                                                      *)
(***************************************************************************)
JwksCacheHours == 1

Callers == 1..NumCallers

(***************************************************************************)
(* Python values.  Every value is a record tagged with its type, so that   *)
(* isinstance() and truthiness are computed, not assumed.  A str is a      *)
(* sequence of characters, a list a sequence of values, a dict a function  *)
(* from keys to values.                                                    *)
(***************************************************************************)
None == [t |-> "None"]
PyBool(b) == [t |-> "bool", v |-> b]
PyInt(n) == [t |-> "int", v |-> n]
PyStr(s) == [t |-> "str", v |-> s]
PyList(l) == [t |-> "list", v |-> l]
PyDict(f) == [t |-> "dict", v |-> f]

Truthy(x) ==
    CASE x.t = "None" -> FALSE
      [] x.t = "bool" -> x.v
      [] x.t = "int" -> x.v # 0
      [] x.t = "str" -> Len(x.v) > 0
      [] x.t = "list" -> Len(x.v) > 0
      [] x.t = "dict" -> DOMAIN x.v # {}
      [] OTHER -> TRUE

\* dict.get(key, default)
DictGet(d, key, default) == IF key \in DOMAIN d.v THEN d.v[key] ELSE default

(***************************************************************************)
(* Results of a call: a returned value or a raised exception.              *)
(***************************************************************************)
Ok(v) == [ok |-> TRUE, val |-> v]
Raise(e, m) == [ok |-> FALSE, exc |-> e, msg |-> m]
NoResult == [ok |-> FALSE, exc |-> "pending", msg |-> <<>>]

\* The exception classes of the program and their base classes.
ExcParent ==
    [TokenMissingError |-> "OAuthError", TokenInvalidError |-> "OAuthError",
     InsufficientScopesError |-> "OAuthError", OAuthError |-> "Exception",
     ExpiredSignatureError |-> "JWTError", JWTClaimsError |-> "JWTError",
     JWTError |-> "Exception",
     HTTPStatusError |-> "HTTPError", ConnectError |-> "HTTPError",
     HTTPError |-> "Exception",
     JSONDecodeError |-> "Exception", RuntimeError |-> "Exception",
     TypeError |-> "Exception", KeyError |-> "Exception",
     IndexError |-> "Exception", Exception |-> "BaseException",
     BaseException |-> "object"]

RECURSIVE IsInstance(_, _)
IsInstance(exc, cls) ==
    IF exc = cls THEN TRUE
    ELSE IF exc \notin DOMAIN ExcParent THEN FALSE
    ELSE IsInstance(ExcParent[exc], cls)


(***************************************************************************)
(* Strings.  str.split() cuts at runs of whitespace and drops the empty    *)
(* words; set(...) of the list forgets order and repetitions.              *)
(***************************************************************************)
WhiteSpace == {" ", "\t", "\n"}

RECURSIVE str_split_from(_, _, _)
str_split_from(s, i, cur) ==
    IF i > Len(s)
    THEN IF cur = <<>> THEN <<>> ELSE <<PyStr(cur)>>
    ELSE IF s[i] \in WhiteSpace
         THEN (IF cur = <<>> THEN <<>> ELSE <<PyStr(cur)>>)
              \o str_split_from(s, i + 1, <<>>)
         ELSE str_split_from(s, i + 1, Append(cur, s[i]))

str_split(s) == str_split_from(s, 1, <<>>)

PySet(l) == {l[i] : i \in DOMAIN l}

(***************************************************************************)
(* TokenValidator.check_scopes                                             *)
(***************************************************************************)
TokenScopesDroppingType(token_data) ==
    LET token_scope == DictGet(token_data, "scope", PyStr(<<>>))
    IN  IF token_scope.t = "str" THEN PySet(str_split(token_scope.v))
        ELSE {}

TokenScopes(token_data) ==
    LET token_scope == DictGet(token_data, "scope", PyStr(<<>>))
    IN  IF token_scope.t = "str" THEN PySet(str_split(token_scope.v))
        ELSE IF token_scope.t = "list" THEN PySet(token_scope.v)
        ELSE {}

check_scopes(token_data, required) ==
    LET token_scopes == TokenScopes(token_data)
        missing_scopes == PySet(required) \ token_scopes
    IN  missing_scopes = {}

(***************************************************************************)
(* Configuration (OAuth2Config).  The URLs are opaque strings.             *)
(***************************************************************************)
KeycloakUrl == "http://localhost:8080"
Realm == "solr-mcp"
\* f"{keycloak_url}/realms/{realm}"
Issuer == PyStr(<<KeycloakUrl, "/realms/", Realm>>)
Audience == PyStr(<<"account">>)
\* OAUTH_SCOPES default: "solr:search,solr:read"
DefaultScopes == <<PyStr(<<"solr:search">>), PyStr(<<"solr:read">>)>>

(***************************************************************************)
(* Access tokens.  A token is a str; a JWT's text is kept as the header    *)
(* and payload it decodes to and the key material that signed it.          *)
(***************************************************************************)
Jwt(alg, kid, sig, payload) ==
    [t |-> "str", v |-> <<"eyJ">>, wellformed |-> TRUE,
     header |-> PyDict(IF kid = None THEN [alg |-> PyStr(<<alg>>)]
                       ELSE [alg |-> PyStr(<<alg>>), kid |-> kid]),
     sig |-> sig, payload |-> payload]

\* Text that is no JWT at all, such as "invalid-token-xyz".
GarbageToken == [t |-> "str", v |-> <<"invalid-token-xyz">>, wellformed |-> FALSE]
EmptyToken == PyStr(<<>>)

Payload(exp, aud, iss, scope) ==
    PyDict([exp |-> PyInt(exp), aud |-> aud, iss |-> iss, scope |-> scope,
            preferred_username |-> PyStr(<<"testuser">>)])

FullScope == PyStr(<<"solr:search", " ", "solr:read", " ", "profile">>)
PartScope == PyStr(<<"solr:search">>)
ListScope == PyList(<<PyStr(<<"solr:read">>), PyStr(<<"solr:search">>)>>)
Later == MaxTime + 1

(***************************************************************************)
(* JWKS documents of the identity provider: {"keys": [{kid, n}, ...]}.     *)
(***************************************************************************)
Key(kid, n) == PyDict([kid |-> PyStr(<<kid>>), n |-> PyStr(<<n>>)])
Jwks(keys) == PyDict([keys |-> PyList(keys)])

\* the provider's key set before and after a key rotation
JwksBodies ==
    { Jwks(<<Key("k1", "n1")>>),
      Jwks(<<Key("k2", "n2")>>) }

(***************************************************************************)
(* TokenValidator.validate_token_local, after _fetch_jwks returned jwks.   *)
(* jwt.decode verifies the algorithm and the signature first, then the     *)
(* claims in the order exp, aud, iss.                                      *)
(***************************************************************************)
RECURSIVE FindKey(_, _, _)
FindKey(keys, kid, i) ==
    IF i > Len(keys) THEN None
    ELSE IF DictGet(keys[i], "kid", None) = kid THEN keys[i]
    ELSE FindKey(keys, kid, i + 1)

jwt_decode(token, key_data, now) ==
    LET claims == token.payload IN
    IF DictGet(token.header, "alg", None) # PyStr(<<"RS256">>)
    THEN Raise("JWTError", <<"The specified alg value is not allowed">>)
    ELSE IF token.sig # DictGet(key_data, "n", None)
    THEN Raise("JWTError", <<"Signature verification failed.">>)
    ELSE IF "exp" \in DOMAIN claims.v /\ claims.v["exp"].v < now
    THEN Raise("ExpiredSignatureError", <<"Signature has expired.">>)
    ELSE IF "aud" \in DOMAIN claims.v /\ claims.v["aud"] # Audience
    THEN Raise("JWTClaimsError", <<"Invalid audience">>)
    ELSE IF DictGet(claims, "iss", None) # Issuer
    THEN Raise("JWTClaimsError", <<"Invalid issuer">>)
    ELSE Ok(claims)

WellFormed(token) == "wellformed" \in DOMAIN token /\ token.wellformed

validate_token_local(token, jwks, now) ==
    IF ~WellFormed(token)
    THEN Raise("JWTError", <<"Error decoding token headers.">>)
    ELSE LET kid == DictGet(token.header, "kid", None) IN
         IF ~Truthy(kid)
         THEN Raise("JWTError", <<"Token header missing 'kid' field">>)
         ELSE LET key_data ==
                      FindKey(DictGet(jwks, "keys", PyList(<<>>)).v, kid, 1)
              IN  IF ~Truthy(key_data)
                  THEN Raise("JWTError",
                             <<"No matching key found in JWKS for kid: ">> \o kid.v)
                  ELSE jwt_decode(token, key_data, now)

(***************************************************************************)
(* TokenValidator.validate_token_introspection, after the POST answered    *)
(* with the JSON body introspection.                                       *)
(***************************************************************************)
introspection_result_default_active(introspection) ==
    IF ~Truthy(DictGet(introspection, "active", PyBool(TRUE)))
    THEN Raise("Exception", <<"Token is not active (revoked or expired)">>)
    ELSE Ok(introspection)

introspection_result(introspection) ==
    IF ~Truthy(DictGet(introspection, "active", PyBool(FALSE)))
    THEN Raise("Exception", <<"Token is not active (revoked or expired)">>)
    ELSE Ok(introspection)

\* validate_token with OAuth disabled
Sentinel == PyDict([sub |-> PyStr(<<"anonymous">>), scope |-> PyStr(<<"all">>)])

(***************************************************************************)
(* State.                                                                  *)
(*   enabled              OAuth2Config.enabled                             *)
(*   deploy               "mcp_server": the validator is the one lifespan  *)
(*                        builds; "library": it is built and used directly *)
(*   phase                lifespan's position                              *)
(*   http_client          TokenValidator._http_client: None, open, closed  *)
(*   jwks_cache, jwks_cache_expires   the two cache fields                 *)
(*   clock                datetime.utcnow(), in ticks                      *)
(*   pc, call, ret        each caller's position, arguments and result     *)
(* History, not read by the program:                                       *)
(*   cache_src, expires_src   the GET whose answer wrote each cache field  *)
(*   fetched_at           when the cached key set was fetched              *)
(*   fetch_seq            calls of http_client.get(jwks_endpoint) so far   *)
(*   calls_made           invocations so far                               *)
(*   tr                   what the current invocation of each caller did,  *)
(*                        and the last answer it received                  *)
(***************************************************************************)
VARIABLES enabled, deploy, phase, http_client, jwks_cache, jwks_cache_expires,
          clock, pc, call, ret, cache_src, expires_src, fetched_at, fetch_seq,
          calls_made, tr, required_scopes, token_data, has_scopes, gw, lv

\* required_scopes is OAuth2Config.required_scopes; token_data and has_scopes
\* are the argument and the result of a direct call of check_scopes; gw is
\* the state of one call that goes to SolrClient, see GwIdle; lv is one call
\* of validate_token_local with the key set it was given, see LvIdle.
scopeVars == <<token_data, has_scopes, gw, lv>>

vars == <<enabled, deploy, phase, http_client, jwks_cache, jwks_cache_expires,
          clock, pc, call, ret, cache_src, expires_src, fetched_at, fetch_seq,
          calls_made, tr, required_scopes, token_data, has_scopes, gw, lv>>

DateTime(n) == [t |-> "datetime", at |-> n]
\* timedelta(hours=1)
CacheTTL == JwksCacheHours * TicksPerHour

(***************************************************************************)
(* TokenValidator._fetch_jwks: the cache test and the cache write.         *)
(***************************************************************************)
CacheFreshInclusive(cache, expires, now) ==
    Truthy(cache) /\ Truthy(expires) /\ now <= expires.at

CacheFresh(cache, expires, now) ==
    Truthy(cache) /\ Truthy(expires) /\ now < expires.at

CacheFieldsCleared ==
    [cache |-> None, expires |-> None, csrc |-> 0, esrc |-> 0]

CacheFields ==
    [cache |-> jwks_cache, expires |-> jwks_cache_expires,
     csrc |-> cache_src, esrc |-> expires_src]

CacheStoreKeysOnly(old, jwks_data, now, id) ==
    [old EXCEPT !.cache = jwks_data, !.csrc = id]

CacheStoreFirstWins(old, jwks_data, now, id) ==
    IF CacheFresh(old.cache, old.expires, now) THEN old
    ELSE [cache |-> jwks_data, expires |-> DateTime(now + CacheTTL),
          csrc |-> id, esrc |-> id]

CacheStore(old, jwks_data, now, id) ==
    [cache |-> jwks_data, expires |-> DateTime(now + CacheTTL),
     csrc |-> id, esrc |-> id]

(***************************************************************************)
(* The inputs of the model: tokens, calls, and what the identity provider  *)
(* and the search engine may answer.                                       *)
(***************************************************************************)
GoodToken ==
    Jwt("RS256", PyStr(<<"k1">>), PyStr(<<"n1">>),
        Payload(Later, Audience, Issuer, FullScope))
PartToken ==
    Jwt("RS256", PyStr(<<"k1">>), PyStr(<<"n1">>),
        Payload(Later, Audience, Issuer, PartScope))
ExpiringToken ==
    Jwt("RS256", PyStr(<<"k1">>), PyStr(<<"n1">>),
        Payload(0, Audience, Issuer, FullScope))
ForgedToken ==
    Jwt("RS256", PyStr(<<"k1">>), PyStr(<<"forged">>),
        Payload(0, Audience, Issuer, FullScope))

Tokens == {None, EmptyToken, GarbageToken, ForgedToken, ExpiringToken,
           GoodToken, PartToken}

Tools == {"search", "get_document"}

Calls ==
    {[op |-> "fetch_jwks", token |-> None, intro |-> FALSE]}
    \cup {[op |-> "validate_token", token |-> t, intro |-> i] :
              t \in {None, GarbageToken, ExpiringToken, GoodToken}, i \in BOOLEAN}
    \cup {[op |-> o, token |-> t, intro |-> FALSE] : o \in Tools, t \in Tokens}

NetErrors == {"ConnectError", "HTTPStatusError", "JSONDecodeError"}
NetFailure(kind) == Raise(kind, <<kind>>)
ClientClosed ==
    Raise("RuntimeError", <<"Cannot send a request, as the client has been closed.">>)

JwksOutcomes ==
    {[kind |-> "ok", body |-> b] : b \in JwksBodies}
    \cup {[kind |-> k, body |-> None] : k \in NetErrors}

IntroBodies ==
    { PyDict([active |-> PyBool(TRUE), scope |-> FullScope]),
      PyDict([active |-> PyBool(FALSE), scope |-> FullScope,
              username |-> PyStr(<<"testuser">>)]),
      PyDict([active |-> PyBool(FALSE)]),
      PyDict([scope |-> FullScope, username |-> PyStr(<<"testuser">>)]),
      PyDict([active |-> None, scope |-> FullScope]) }

IntroOutcomes ==
    {[kind |-> "ok", body |-> b] : b \in IntroBodies}
    \cup {[kind |-> k, body |-> None] : k \in {"ConnectError", "HTTPStatusError"}}

Doc == PyDict([id |-> PyStr(<<"doc1">>), title |-> PyStr(<<"Apache Solr">>)])
SolrEnvelope(numFound, docs) ==
    PyDict([responseHeader |-> PyDict([status |-> PyInt(0)]),
            response |-> PyDict([numFound |-> PyInt(numFound),
                                 docs |-> PyList(docs)])])
SolrBodies ==
    { SolrEnvelope(1, <<Doc>>),
      SolrEnvelope(0, <<>>),
      SolrEnvelope(1, <<>>),
      PyDict([responseHeader |-> PyDict([status |-> PyInt(0)])]),
      PyList(<<>>) }

SolrOutcomes ==
    {[kind |-> "ok", body |-> b] : b \in SolrBodies}
    \cup {[kind |-> k, body |-> None] : k \in NetErrors}

(***************************************************************************)
(* SolrClient.get_document, after the GET answered.                        *)
(***************************************************************************)
ErrorPayload(m) == PyDict([error |-> PyStr(m)])

Caught(exc) == ErrorPayload(<<"Fehler beim Abrufen des Dokuments: ", exc>>)

solr_get_document_first_doc(out, doc_id) ==
    IF out.kind = "HTTPStatusError" THEN NetFailure("HTTPStatusError")
    ELSE IF out.kind # "ok" THEN Ok(Caught(out.kind))
    ELSE LET result == out.body IN
         IF result.t # "dict" THEN Ok(Caught("TypeError"))
         ELSE IF "response" \notin DOMAIN result.v THEN Ok(Caught("KeyError"))
         ELSE LET response == result.v["response"] IN
              IF "docs" \notin DOMAIN response.v THEN Ok(Caught("KeyError"))
              ELSE IF Len(response.v["docs"].v) = 0 THEN Ok(Caught("IndexError"))
              ELSE Ok(response.v["docs"].v[1])

solr_get_document(out, doc_id) ==
    IF out.kind = "HTTPStatusError" THEN NetFailure("HTTPStatusError")
    ELSE IF out.kind # "ok" THEN Ok(Caught(out.kind))
    ELSE LET result == out.body IN
         IF result.t # "dict" THEN Ok(Caught("TypeError"))
         ELSE IF "response" \notin DOMAIN result.v THEN Ok(Caught("KeyError"))
         ELSE LET response == result.v["response"] IN
              IF response.t # "dict" THEN Ok(Caught("TypeError"))
              ELSE IF "numFound" \notin DOMAIN response.v THEN Ok(Caught("KeyError"))
              ELSE IF response.v["numFound"] = PyInt(0)
              THEN Ok(ErrorPayload(<<"Dokument mit ID ", doc_id, " nicht gefunden">>))
              ELSE IF "docs" \notin DOMAIN response.v THEN Ok(Caught("KeyError"))
              ELSE IF Len(response.v["docs"].v) = 0 THEN Ok(Caught("IndexError"))
              ELSE Ok(response.v["docs"].v[1])

(***************************************************************************)
(* What one caller does between two suspension points, as a record:        *)
(*   pc, ret    where it stops and, when done, its result                  *)
(*   gets, posts, solr   calls of http_client.get(jwks_endpoint), of        *)
(*              http_client.post(introspection endpoint) and requests to   *)
(*              the search engine it made                                  *)
(*   vres       the outcome of validate_token, auth that of                *)
(*              validate_oauth_token                                       *)
(*   look       what _fetch_jwks found in the cache: hit, absent, expired  *)
(***************************************************************************)
Step(pcv, retv) ==
    [pc |-> pcv, ret |-> retv, gets |-> 0, posts |-> 0, solr |-> 0,
     vres |-> NoResult, auth |-> NoResult, look |-> "none"]

Done(retv) == Step("done", retv)

ToolErrorPrefix(op) ==
    IF op = "search" THEN "Fehler bei der Verarbeitung der Suche: "
    ELSE "Fehler beim Abrufen des Dokuments: "

\* The tools' outer "except Exception": the exception becomes an error payload.
ToolCatchOAuthOnly(op, res) ==
    IF res.ok \/ ~IsInstance(res.exc, "OAuthError") THEN res
    ELSE Ok(ErrorPayload(<<ToolErrorPrefix(op)>> \o res.msg))

ToolCatch(op, res) ==
    IF res.ok \/ ~IsInstance(res.exc, "Exception") THEN res
    ELSE Ok(ErrorPayload(<<ToolErrorPrefix(op)>> \o res.msg))

\* mcp_server.search passes facet_fields and highlight_fields, which
\* SolrClient.search does not accept: the call raises before any request.
SearchCall ==
    Raise("TypeError",
          <<"SolrClient.search() got an unexpected keyword argument 'facet_fields'">>)

SolrStageAwaitingOther(c) ==
    IF c.op = "search" THEN Done(ToolCatch(c.op, SearchCall))
    ELSE Step("other_wait", NoResult)

\* The tool's code after validate_oauth_token returned.
SolrStage(c) ==
    IF c.op = "search" THEN Done(ToolCatch(c.op, SearchCall))
    ELSE [Step("solr_wait", NoResult) EXCEPT !.solr = 1]

\* "except OAuthError as e: return {error: Authentication failed: ...}"
ToolAfterAuthFallThrough(c, auth) ==
    [SolrStage(c) EXCEPT !.auth = auth]

ToolAfterAuth(c, auth) ==
    IF auth.ok THEN [SolrStage(c) EXCEPT !.auth = auth]
    ELSE IF IsInstance(auth.exc, "OAuthError")
    THEN [Done(Ok(ErrorPayload(<<"Authentication failed: ">> \o auth.msg)))
            EXCEPT !.auth = auth]
    ELSE [Done(ToolCatch(c.op, auth)) EXCEPT !.auth = auth]

RECURSIVE StrOfList(_)
StrOfList(l) == IF l = <<>> THEN <<>> ELSE Head(l).v \o StrOfList(Tail(l))

TokenMissing ==
    Raise("TokenMissingError",
          <<"OAuth is enabled but no access token provided. ",
            "Include token in Authorization header: Bearer <token>">>)

\* validate_oauth_token, after validate_token ended with vres.
oauth_after_validate(vres, required) ==
    IF ~vres.ok /\ IsInstance(vres.exc, "Exception")
    THEN Raise("TokenInvalidError", <<"Invalid access token: ">> \o vres.msg)
    ELSE IF ~vres.ok THEN vres
    ELSE IF ~check_scopes(vres.val, required)
    THEN Raise("InsufficientScopesError",
               <<"Token missing required scopes. Required: ">> \o StrOfList(required))
    ELSE Ok(vres.val)

AfterValidate(c, vres) ==
    IF c.op = "validate_token" THEN [Done(vres) EXCEPT !.vres = vres]
    ELSE [ToolAfterAuth(c, oauth_after_validate(vres, required_scopes))
            EXCEPT !.vres = vres]

\* The caller's code after _fetch_jwks ended with resJ.
AfterJwks(c, resJ) ==
    IF c.op = "fetch_jwks" THEN Done(resJ)
    ELSE AfterValidate(c, IF resJ.ok
                          THEN validate_token_local(c.token, resJ.val, clock)
                          ELSE resJ)

\* _fetch_jwks up to its await
FetchJwks(c) ==
    LET stale == IF jwks_cache = None THEN "absent" ELSE "expired" IN
    IF CacheFresh(jwks_cache, jwks_cache_expires, clock)
    THEN [AfterJwks(c, Ok(jwks_cache)) EXCEPT !.look = "hit"]
    ELSE IF http_client = "closed"
    THEN [AfterJwks(c, ClientClosed) EXCEPT !.gets = 1, !.look = stale]
    ELSE [Step("jwks_wait", NoResult) EXCEPT !.gets = 1, !.look = stale]

\* validate_token_introspection up to its await
Introspect(c) ==
    IF http_client = "closed"
    THEN [AfterValidate(c, ClientClosed) EXCEPT !.posts = 1]
    ELSE [Step("intro_wait", NoResult) EXCEPT !.posts = 1]

ValidateTokenIgnoringEnabled(c) ==
    IF c.intro THEN Introspect(c) ELSE FetchJwks(c)

ValidateTokenSwapped(c) ==
    IF ~enabled THEN AfterValidate(c, Ok(Sentinel))
    ELSE IF c.intro THEN FetchJwks(c)
    ELSE Introspect(c)

ValidateToken(c) ==
    IF ~enabled THEN AfterValidate(c, Ok(Sentinel))
    ELSE IF c.intro THEN Introspect(c)
    ELSE FetchJwks(c)

\* validate_oauth_token up to its first await
ValidateOAuthTokenLate(c) ==
    IF ~enabled THEN [SolrStage(c) EXCEPT !.auth = Ok(None)]
    ELSE ValidateToken(c)

ValidateOAuth(c) ==
    IF ~enabled THEN [SolrStage(c) EXCEPT !.auth = Ok(None)]
    ELSE IF ~Truthy(c.token) THEN ToolAfterAuth(c, TokenMissing)
    ELSE ValidateToken(c)

Start(c) ==
    IF c.op = "fetch_jwks" THEN FetchJwks(c)
    ELSE IF c.op = "validate_token" THEN ValidateToken(c)
    ELSE ValidateOAuth(c)

(***************************************************************************)
(* Actions.                                                                *)
(***************************************************************************)
NoCall == [op |-> "none", token |-> None, intro |-> FALSE]
NoAnswer == [kind |-> "none", body |-> None]

\* One call that goes to SolrClient, directly or through a tool:
\*   front, op, args   who calls what with which keyword arguments
\*   kwargs            the keyword arguments SolrClient's method is called with
\*   params, sent      the query parameters of the GET sent to Solr, if any
\*   reply             the engine's answer
\*   client, result    the outcome of SolrClient's method and of the front
\*   twin              the same call of src/server.py's SolrClient.search
\*   warnings          calls of ctx.warning by the front
NoTwin == [params |-> <<>>, sent |-> 0, client |-> NoResult]
GwIdle ==
    [pc |-> "idle", front |-> "none", op |-> "none", args |-> <<>>,
     kwargs |-> <<>>, params |-> <<>>, sent |-> 0, reply |-> NoAnswer,
     client |-> NoResult, result |-> NoResult, twin |-> NoTwin,
     warnings |-> 0]
\*   token, jwks, now   the token, the key set _fetch_jwks returned, the time
\*   result             the outcome of validate_token_local
LvIdle ==
    [pc |-> "none", token |-> None, jwks |-> None, now |-> 0,
     result |-> NoResult]
TrInit ==
    [gets |-> 0, posts |-> 0, solr |-> 0, vres |-> NoResult, auth |-> NoResult,
     look |-> "none", fetch |-> 0, answer |-> NoAnswer]

Merge(t, r) ==
    [t EXCEPT !.gets = @ + r.gets, !.posts = @ + r.posts, !.solr = @ + r.solr,
              !.vres = IF r.vres = NoResult THEN @ ELSE r.vres,
              !.auth = IF r.auth = NoResult THEN @ ELSE r.auth,
              !.look = IF r.look = "none" THEN @ ELSE r.look]

Init ==
    /\ enabled \in BOOLEAN
    /\ deploy \in {"mcp_server", "library"}
    /\ phase = IF deploy = "mcp_server" THEN "startup" ELSE "serving"
    /\ http_client = "None"
    /\ jwks_cache = None
    /\ jwks_cache_expires = None
    /\ clock = 0
    /\ pc = [p \in Callers |-> "idle"]
    /\ call = [p \in Callers |-> NoCall]
    /\ ret = [p \in Callers |-> NoResult]
    /\ cache_src = 0
    /\ expires_src = 0
    /\ fetched_at = None
    /\ fetch_seq = 0
    /\ calls_made = 0
    /\ tr = [p \in Callers |-> TrInit]
    /\ required_scopes = DefaultScopes
    /\ token_data = None
    /\ has_scopes = None
    /\ gw = GwIdle
    /\ lv = LvIdle

\* A finished call returns at once: nothing else runs in between.
Running == \A q \in Callers : pc[q] # "done"

\* time passes
Tick ==
    /\ Running
    /\ clock < MaxTime
    /\ clock' = clock + 1
    /\ UNCHANGED <<enabled, deploy, phase, http_client, jwks_cache,
                   jwks_cache_expires, pc, call, ret, cache_src, expires_src,
                   fetched_at, fetch_seq, calls_made, tr,
                   required_scopes, scopeVars>>

\* lifespan: "async with token_validator" is entered and the test fetch of
\* JWKS is sent; with OAuth disabled no validator is built.
LifespanStart ==
    /\ phase = "startup"
    /\ IF enabled
       THEN /\ http_client' = "open"
            /\ fetch_seq' = fetch_seq + 1
            /\ phase' = "startup_fetch"
       ELSE /\ phase' = "serving"
            /\ UNCHANGED <<http_client, fetch_seq>>
    /\ UNCHANGED <<enabled, deploy, jwks_cache, jwks_cache_expires, clock, pc,
                   call, ret, cache_src, expires_src, fetched_at, calls_made, tr,
                   required_scopes, scopeVars>>

\* lifespan: the test fetch answers (a failure is only logged), then
\* __aexit__ closes the validator's HTTP client and the server starts serving.
LifespanFetched(out) ==
    /\ phase = "startup_fetch"
    /\ LET new == IF out.kind = "ok"
                  THEN CacheStore(CacheFields, out.body, clock, fetch_seq)
                  ELSE CacheFields
       IN  /\ jwks_cache' = new.cache
           /\ jwks_cache_expires' = new.expires
           /\ cache_src' = new.csrc
           /\ expires_src' = new.esrc
    /\ fetched_at' = IF out.kind = "ok" THEN DateTime(clock) ELSE fetched_at
    /\ http_client' = "closed"
    /\ phase' = "serving"
    /\ UNCHANGED <<enabled, deploy, clock, pc, call, ret, fetch_seq, calls_made, tr,
                   required_scopes, scopeVars>>

\* caller p's position, result and history after a stretch r of its code
Apply(p, r) ==
    /\ pc' = [pc EXCEPT ![p] = r.pc]
    /\ ret' = [ret EXCEPT ![p] = r.ret]

\* caller p calls _fetch_jwks, validate_token or a tool with the arguments c
Invoke(p, c) ==
    /\ Running
    /\ phase = "serving"
    /\ pc[p] = "idle"
    /\ calls_made < MaxCalls
    /\ c.op \in Tools \/ deploy = "library"
    /\ LET r == Start(c) IN
       /\ Apply(p, r)
       /\ tr' = [tr EXCEPT ![p] =
                    [Merge(TrInit, r) EXCEPT
                        !.fetch = IF r.gets > 0 THEN fetch_seq + 1 ELSE 0]]
       /\ fetch_seq' = fetch_seq + r.gets
       /\ http_client' = IF http_client = "None" /\ r.gets + r.posts > 0
                         THEN "open" ELSE http_client
    /\ call' = [call EXCEPT ![p] = c]
    /\ calls_made' = calls_made + 1
    /\ UNCHANGED <<enabled, deploy, phase, jwks_cache, jwks_cache_expires, clock,
                   cache_src, expires_src, fetched_at,
                   required_scopes, scopeVars>>

\* the GET of the JWKS endpoint that p awaits answers
JwksAnswer(p, out) ==
    /\ Running
    /\ pc[p] = "jwks_wait"
    /\ LET resJ == IF out.kind = "ok" THEN Ok(out.body) ELSE NetFailure(out.kind)
           new == IF out.kind = "ok"
                  THEN CacheStore(CacheFields, out.body, clock, tr[p].fetch)
                  ELSE CacheFields
           r == AfterJwks(call[p], resJ)
       IN  /\ jwks_cache' = new.cache
           /\ jwks_cache_expires' = new.expires
           /\ cache_src' = new.csrc
           /\ expires_src' = new.esrc
           /\ Apply(p, r)
           /\ tr' = [tr EXCEPT ![p] = [Merge(@, r) EXCEPT !.answer = out]]
    /\ fetched_at' = IF out.kind = "ok" THEN DateTime(clock) ELSE fetched_at
    /\ UNCHANGED <<enabled, deploy, phase, http_client, clock, call, fetch_seq,
                   calls_made, required_scopes, scopeVars>>

\* the POST to the introspection endpoint that p awaits answers
IntroAnswer(p, out) ==
    /\ Running
    /\ pc[p] = "intro_wait"
    /\ LET vres == IF out.kind = "ok" THEN introspection_result(out.body)
                   ELSE NetFailure(out.kind)
           r == AfterValidate(call[p], vres)
       IN  /\ Apply(p, r)
           /\ tr' = [tr EXCEPT ![p] = [Merge(@, r) EXCEPT !.answer = out]]
    /\ UNCHANGED <<enabled, deploy, phase, http_client, jwks_cache,
                   jwks_cache_expires, clock, call, cache_src, expires_src,
                   fetched_at, fetch_seq, calls_made,
                   required_scopes, scopeVars>>

\* the search engine answers the GET of get_document that p awaits
SolrAnswer(p, out) ==
    /\ Running
    /\ pc[p] = "solr_wait"
    /\ LET r == Done(ToolCatch(call[p].op, solr_get_document(out, "doc1")))
       IN  /\ Apply(p, r)
           /\ tr' = [tr EXCEPT ![p] = [Merge(@, r) EXCEPT !.answer = out]]
    /\ UNCHANGED <<enabled, deploy, phase, http_client, jwks_cache,
                   jwks_cache_expires, clock, call, cache_src, expires_src,
                   fetched_at, fetch_seq, calls_made,
                   required_scopes, scopeVars>>

\* p's call has returned to its caller
Return(p) ==
    /\ pc[p] = "done"
    /\ pc' = [pc EXCEPT ![p] = "idle"]
    /\ ret' = [ret EXCEPT ![p] = NoResult]
    /\ call' = [call EXCEPT ![p] = NoCall]
    /\ tr' = [tr EXCEPT ![p] = TrInit]
    /\ UNCHANGED <<enabled, deploy, phase, http_client, jwks_cache,
                   jwks_cache_expires, clock, cache_src, expires_src,
                   fetched_at, fetch_seq, calls_made,
                   required_scopes, scopeVars>>

Next ==
    \/ Tick
    \/ LifespanStart
    \/ \E out \in JwksOutcomes : LifespanFetched(out)
    \/ \E p \in Callers, c \in Calls : Invoke(p, c)
    \/ \E p \in Callers, out \in JwksOutcomes : JwksAnswer(p, out)
    \/ \E p \in Callers, out \in IntroOutcomes : IntroAnswer(p, out)
    \/ \E p \in Callers, out \in SolrOutcomes : SolrAnswer(p, out)
    \/ \E p \in Callers : Return(p)

Spec == Init /\ [][Next]_vars

(***************************************************************************)
(* Properties.                                                             *)
(***************************************************************************)
IsErrorPayload(v) ==
    v.t = "dict" /\ DOMAIN v.v = {"error"} /\ v.v["error"].t = "str"

IsAuthErrorPayload(v) ==
    IsErrorPayload(v) /\ Head(v.v["error"].v) = "Authentication failed: "

AuthFailures == {"TokenMissingError", "TokenInvalidError", "InsufficientScopesError"}

ToolDone(p) == pc[p] = "done" /\ call[p].op \in Tools

AuthFailed(p) == ~tr[p].auth.ok /\ tr[p].auth.exc \in AuthFailures

\* C1: with OAuth enabled, a search or get_document invocation whose token
\* validation ended in a missing-token, invalid-token or insufficient-scope
\* failure has sent no request to the search engine and answers with an
\* authentication error payload; a request to the engine is only ever in
\* flight after validation succeeded.
C1_AuthFailureShortCircuits ==
    \A p \in Callers :
        /\ (enabled /\ call[p].op \in Tools /\ AuthFailed(p)) =>
              /\ pc[p] = "done"
              /\ tr[p].solr = 0
              /\ ret[p].ok
              /\ IsAuthErrorPayload(ret[p].val)
        /\ (enabled /\ pc[p] = "solr_wait") => tr[p].auth.ok

C1_Witness ==
    \E p \in Callers :
        /\ enabled /\ ToolDone(p) /\ call[p].op = "get_document"
        /\ AuthFailed(p) /\ tr[p].auth.exc = "InsufficientScopesError"
        /\ tr[p].solr = 0

\* C2: with OAuth disabled, validate_token returns the sentinel
\* {sub: anonymous, scope: all} whatever the token (None included) and the
\* strategy, and calls neither the JWKS nor the introspection endpoint.
C2_DisabledReturnsSentinel ==
    \A p \in Callers :
        (~enabled /\ call[p].op = "validate_token") =>
            /\ pc[p] = "done"
            /\ ret[p].ok
            /\ ret[p].val =
                 PyDict([sub |-> PyStr(<<"anonymous">>), scope |-> PyStr(<<"all">>)])
            /\ tr[p].gets = 0
            /\ tr[p].posts = 0

C2_Witness ==
    \E p \in Callers :
        /\ ~enabled /\ pc[p] = "done" /\ call[p].op = "validate_token"
        /\ call[p].token = None /\ call[p].intro
        /\ ret[p].ok

(***************************************************************************)
(* check_scopes on its own: the validator's required scopes and the token  *)
(* data are drawn from bounded sets, and the function is applied once.     *)
(***************************************************************************)
SeqsUpTo(S, n) == UNION {[1..k -> S] : k \in 0..n}

NameAlphabet == {"a", "b"}
ScopeAlphabet == NameAlphabet \cup {" "}

ScopeNames == {PyStr(s) : s \in SeqsUpTo(NameAlphabet, MaxNameLen) \ {<<>>}}

\* OAuth2Config.required_scopes: List[str]
RequiredLists == SeqsUpTo(ScopeNames, MaxScopes)

\* the value of the scope claim
ScopeClaims ==
    {PyStr(s) : s \in SeqsUpTo(ScopeAlphabet, MaxScopeLen)}
    \cup {PyList(l) : l \in SeqsUpTo(ScopeNames, MaxScopes)}
    \cup {None, PyInt(7), PyBool(TRUE), PyDict([a |-> PyBool(TRUE)])}

TokenDatas ==
    {PyDict([sub |-> PyStr(<<"testuser">>), scope |-> s]) : s \in ScopeClaims}
    \cup {PyDict([sub |-> PyStr(<<"testuser">>)])}
    \* what validate_token returns with OAuth disabled
    \cup {Sentinel}

InitScopes ==
    /\ enabled = TRUE
    /\ deploy = "library"
    /\ phase = "serving"
    /\ http_client = "None"
    /\ jwks_cache = None
    /\ jwks_cache_expires = None
    /\ clock = 0
    /\ pc = [p \in Callers |-> "idle"]
    /\ call = [p \in Callers |-> NoCall]
    /\ ret = [p \in Callers |-> NoResult]
    /\ cache_src = 0
    /\ expires_src = 0
    /\ fetched_at = None
    /\ fetch_seq = 0
    /\ calls_made = 0
    /\ tr = [p \in Callers |-> TrInit]
    /\ required_scopes \in RequiredLists \cup {DefaultScopes}
    /\ token_data \in TokenDatas
    /\ has_scopes = None
    /\ gw = GwIdle
    /\ lv = LvIdle

CheckScopes ==
    /\ has_scopes = None
    /\ has_scopes' = PyBool(check_scopes(token_data, required_scopes))
    /\ UNCHANGED <<enabled, deploy, phase, http_client, jwks_cache,
                   jwks_cache_expires, clock, pc, call, ret, cache_src,
                   expires_src, fetched_at, fetch_seq, calls_made, tr,
                   required_scopes, token_data, gw, lv>>

NextScopes == CheckScopes

SpecScopes == InitScopes /\ [][NextScopes]_vars

\* the maximal runs of non-whitespace characters of s
Words(s) ==
    {PyStr(SubSeq(s, x[1], x[2])) :
        x \in {y \in (1..Len(s)) \X (1..Len(s)) :
                 /\ y[1] <= y[2]
                 /\ \A k \in y[1]..y[2] : s[k] \notin WhiteSpace
                 /\ y[1] = 1 \/ s[y[1] - 1] \in WhiteSpace
                 /\ y[2] = Len(s) \/ s[y[2] + 1] \in WhiteSpace}}

\* the set S of scopes a token carries
ScopeSetOf(td) ==
    IF "scope" \notin DOMAIN td.v THEN {}
    ELSE LET c == td.v["scope"] IN
         IF c.t = "str" THEN Words(c.v)
         ELSE IF c.t = "list" THEN {c.v[i] : i \in 1..Len(c.v)}
         ELSE {}

\* C3: check_scopes returns a boolean, and it is true iff every required
\* scope is among the token's scopes, where the token's scopes are the
\* words of a string scope claim, the elements of a list scope claim, and
\* nothing if the claim is missing or of another type.
C3_CheckScopesIsSubset ==
    has_scopes # None =>
        has_scopes = PyBool(PySet(required_scopes) \subseteq ScopeSetOf(token_data))

C3_Witness ==
    /\ has_scopes = PyBool(TRUE)
    /\ Len(required_scopes) = 2 /\ required_scopes[1] # required_scopes[2]
    /\ "scope" \in DOMAIN token_data.v
    /\ token_data.v["scope"].t = "list"

OneHour == TicksPerHour

\* the calls that reach _fetch_jwks
CallsFetchJwks(c) ==
    \/ c.op = "fetch_jwks"
    \/ enabled /\ c.op = "validate_token" /\ ~c.intro
    \/ enabled /\ c.op \in Tools /\ Truthy(c.token)

C4_Call(p) ==
    (pc[p] = "idle" /\ pc'[p] # "idle" /\ CallsFetchJwks(call'[p])
       /\ fetched_at # None) =>
        IF clock < fetched_at.at + OneHour
        THEN /\ fetch_seq' = fetch_seq
             /\ tr'[p].gets = 0
             /\ call'[p].op = "fetch_jwks" =>
                    pc'[p] = "done" /\ ret'[p] = Ok(jwks_cache)
        ELSE /\ fetch_seq' = fetch_seq + 1
             /\ tr'[p].gets = 1

C4_Answer(p) ==
    (pc[p] = "jwks_wait" /\ pc'[p] # "jwks_wait") =>
        /\ fetch_seq' = fetch_seq
        /\ tr'[p].gets = 1
        /\ tr'[p].answer.kind = "ok" =>
              /\ jwks_cache' = tr'[p].answer.body
              /\ jwks_cache_expires' = DateTime(clock + OneHour)
              /\ fetched_at' = DateTime(clock)

\* C4: once a fetch of JWKS succeeded at time t, every call of _fetch_jwks
\* made while now < t + 1 hour returns the cached key set without a GET; a
\* call made at or after t + 1 hour issues exactly one GET, and when that
\* GET succeeds its answer replaces the key set and the expiry (now + 1 hour).
C4_FetchedOncePerWindow ==
    [][\A p \in Callers : C4_Call(p) /\ C4_Answer(p)]_vars

C4_Witness ==
    \E p \in Callers :
        /\ pc[p] = "done" /\ call[p].op = "fetch_jwks"
        /\ tr[p].look = "expired" /\ tr[p].gets = 1 /\ ret[p].ok
        /\ jwks_cache = ret[p].val /\ cache_src = tr[p].fetch
        /\ jwks_cache_expires = DateTime(clock + OneHour)

\* C5: in every state, that is at every point where a caller can look at the
\* cache, the two cache fields are both unset or both set, they were written
\* by the same fetch, and the expiry is the one computed when the cached key
\* set was fetched.
C5_CacheSwapAtomic ==
    /\ (jwks_cache = None) = (jwks_cache_expires = None)
    /\ cache_src = expires_src
    /\ jwks_cache # None =>
          /\ fetched_at # None
          /\ jwks_cache_expires = DateTime(fetched_at.at + OneHour)

\* two fetches overlap: q's GET was sent after p's and answered first
C5_Witness ==
    \E p, q \in Callers :
        /\ p # q
        /\ pc[p] = "jwks_wait" /\ pc[q] = "done"
        /\ tr[q].answer.kind = "ok" /\ tr[q].gets = 1
        /\ tr[q].fetch > tr[p].fetch
        /\ cache_src = tr[q].fetch /\ expires_src = tr[q].fetch

\* C6: with OAuth enabled the outcome of validate_oauth_token is decided in
\* this order: a missing token is TokenMissingError, raised before any call
\* of the validator or the provider; a token that fails validation is
\* TokenInvalidError; a token that validates but lacks a required scope is
\* InsufficientScopesError; each carries its own message.
C6_ThreeAuthOutcomes ==
    \A p \in Callers :
        (enabled /\ ToolDone(p)) =>
            LET a == tr[p].auth
                v == tr[p].vres
            IN  IF ~Truthy(call[p].token)
                THEN /\ ~a.ok /\ a.exc = "TokenMissingError"
                     /\ Head(a.msg) = "OAuth is enabled but no access token provided. "
                     /\ v = NoResult /\ tr[p].gets = 0 /\ tr[p].posts = 0
                ELSE IF ~v.ok
                THEN /\ v # NoResult
                     /\ ~a.ok /\ a.exc = "TokenInvalidError"
                     /\ Head(a.msg) = "Invalid access token: "
                ELSE IF ~(PySet(required_scopes) \subseteq TokenScopes(v.val))
                THEN /\ ~a.ok /\ a.exc = "InsufficientScopesError"
                     /\ Head(a.msg) = "Token missing required scopes. Required: "
                ELSE a.ok

C6_Witness ==
    \E p \in Callers :
        /\ enabled /\ ToolDone(p)
        /\ tr[p].vres.ok
        /\ ~tr[p].auth.ok /\ tr[p].auth.exc = "InsufficientScopesError"

\* C7: when the introspection endpoint answers, validate_token_introspection
\* returns the answer only if its active field is true; with active false,
\* null or absent it fails with the "not active" reason, whatever other
\* claims the answer carries.
C7_ActiveFlagAuthoritative ==
    \A p \in Callers :
        (enabled /\ pc[p] = "done" /\ call[p].op = "validate_token"
           /\ call[p].intro /\ tr[p].answer.kind = "ok") =>
            LET b == tr[p].answer.body IN
            IF "active" \in DOMAIN b.v /\ b.v["active"] = PyBool(TRUE)
            THEN ret[p] = Ok(b)
            ELSE /\ ~ret[p].ok
                 /\ ret[p].msg = <<"Token is not active (revoked or expired)">>

C7_Witness ==
    \E p \in Callers :
        /\ enabled /\ pc[p] = "done" /\ call[p].op = "validate_token"
        /\ call[p].intro
        /\ tr[p].answer =
             [kind |-> "ok",
              body |-> PyDict([active |-> PyBool(FALSE), scope |-> FullScope,
                               username |-> PyStr(<<"testuser">>)])]
        /\ ~ret[p].ok

\* C8: a tool invocation whose token validation met a network error of the
\* identity provider is not authenticated, and its failure is of another
\* kind than the failure of an invalid token.
C8_ProviderUnreachableDistinct ==
    \A p \in Callers :
        (enabled /\ ToolDone(p) /\ ~tr[p].vres.ok /\ tr[p].vres.exc \in NetErrors) =>
            /\ ~tr[p].auth.ok
            /\ tr[p].auth.exc # "TokenInvalidError"

\* C9: a tool invocation whose token failed local validation because it is
\* expired fails with another kind than one whose signature is invalid.
C9_ExpiredDistinctAtTool ==
    \A p \in Callers :
        (enabled /\ ToolDone(p) /\ ~tr[p].vres.ok
           /\ tr[p].vres.exc = "ExpiredSignatureError") =>
            /\ ~tr[p].auth.ok
            /\ tr[p].auth.exc # "TokenInvalidError"

C11_SearchReturnsEnginePayload ==
    \A p \in Callers :
        (ToolDone(p) /\ call[p].op = "search" /\ tr[p].auth.ok) =>
            /\ tr[p].solr = 1
            /\ tr[p].answer.kind = "ok" => ret[p] = Ok(tr[p].answer.body)
            /\ IsErrorPayload(ret[p].val) => tr[p].answer.kind # "ok"

(***************************************************************************)
(* SolrClient on its own, and the tools in front of it.                    *)
(***************************************************************************)
\* Binding of a call's keyword arguments to a signature: a parameter that
\* the signature does not have, or a required one that is not passed, is a
\* TypeError raised by the call itself.
Absent == [t |-> "absent"]
Required == [t |-> "required"]

Bind(signature, kwargs) ==
    IF ~(DOMAIN kwargs \subseteq DOMAIN signature)
    THEN Raise("TypeError", <<"got an unexpected keyword argument">>)
    ELSE IF \E n \in DOMAIN signature :
                n \notin DOMAIN kwargs /\ signature[n] = Required
    THEN Raise("TypeError", <<"missing 1 required positional argument">>)
    ELSE Ok([n \in DOMAIN signature |->
                IF n \in DOMAIN kwargs THEN kwargs[n] ELSE signature[n]])

\* the keyword arguments of a call: those of r that are passed
Supplied(r) == [k \in {n \in DOMAIN r : r[n] # Absent} |-> r[k]]

MatchAll == PyStr(<<"*:*">>)

\* def search(self, query="*:*", filter_query=None, sort=None, rows=10, start=0)
SearchSignature ==
    [query |-> MatchAll, filter_query |-> None, sort |-> None,
     rows |-> PyInt(10), start |-> PyInt(0)]

\* def get_document(self, doc_id, fields=None)
GetDocumentSignature == [doc_id |-> Required, fields |-> None]

Signature(op) ==
    IF op = "search" THEN SearchSignature ELSE GetDocumentSignature

search_params_query_as_is(a) ==
    [q |-> a.query, wt |-> PyStr(<<"json">>), rows |-> a.rows, start |-> a.start]
    @@ (IF Truthy(a.filter_query) THEN [fq |-> a.filter_query] ELSE <<>>)
    @@ (IF Truthy(a.sort) THEN [sort |-> a.sort] ELSE <<>>)

search_params_not_none(a) ==
    [q |-> IF Truthy(a.query) THEN a.query ELSE MatchAll,
     wt |-> PyStr(<<"json">>), rows |-> a.rows, start |-> a.start]
    @@ (IF a.filter_query # None THEN [fq |-> a.filter_query] ELSE <<>>)
    @@ (IF a.sort # None THEN [sort |-> a.sort] ELSE <<>>)

\* the params dict of SolrClient.search
search_params(a) ==
    [q |-> IF Truthy(a.query) THEN a.query ELSE MatchAll,
     wt |-> PyStr(<<"json">>), rows |-> a.rows, start |-> a.start]
    @@ (IF Truthy(a.filter_query) THEN [fq |-> a.filter_query] ELSE <<>>)
    @@ (IF Truthy(a.sort) THEN [sort |-> a.sort] ELSE <<>>)

\* ",".join(fields)
RECURSIVE Join(_)
Join(l) ==
    IF l = <<>> THEN <<>>
    ELSE IF Len(l) = 1 THEN l[1].v
    ELSE l[1].v \o <<",">> \o Join(Tail(l))

\* the params dict of SolrClient.get_document
document_params(a) ==
    [q |-> PyStr(<<"id:">> \o a.doc_id.v), wt |-> PyStr(<<"json">>)]
    @@ (IF Truthy(a.fields) THEN [fl |-> PyStr(Join(a.fields.v))] ELSE <<>>)

BuildParams(op, a) ==
    IF op = "search" THEN search_params(a) ELSE document_params(a)

solr_search_uncaught(out) ==
    IF out.kind # "ok" THEN NetFailure(out.kind) ELSE Ok(out.body)

\* SolrClient.search, after the GET answered
solr_search(out) ==
    IF out.kind = "HTTPStatusError" THEN NetFailure("HTTPStatusError")
    ELSE IF out.kind # "ok"
    THEN Ok(ErrorPayload(<<"Fehler bei der Suche: ", out.kind>>))
    ELSE Ok(out.body)

(***************************************************************************)
(* SolrClient.search of the stand-alone src/server.py.                     *)
(***************************************************************************)
\* def search(self, query, filter_query=None, sort=None, rows=10, start=0)
ServerSearchSignature ==
    [query |-> Required, filter_query |-> None, sort |-> None,
     rows |-> PyInt(10), start |-> PyInt(0)]

server_search_params(a) ==
    [q |-> a.query, wt |-> PyStr(<<"json">>), rows |-> a.rows, start |-> a.start]
    @@ (IF Truthy(a.filter_query) THEN [fq |-> a.filter_query] ELSE <<>>)
    @@ (IF Truthy(a.sort) THEN [sort |-> a.sort] ELSE <<>>)

\* after the GET answered: every exception becomes an error payload
server_solr_search(out) ==
    IF out.kind = "HTTPStatusError"
    THEN Ok(PyDict([error |-> PyStr(<<"Solr search error: ", out.kind>>),
                    status_code |-> PyInt(500)]))
    ELSE IF out.kind = "ConnectError"
    THEN Ok(ErrorPayload(<<"Solr connection error: ", out.kind>>))
    ELSE IF out.kind # "ok"
    THEN Ok(ErrorPayload(<<"Unexpected error: ", out.kind>>))
    ELSE Ok(out.body)

\* the call up to its GET
server_search_call(kwargs) ==
    LET bound == Bind(ServerSearchSignature, kwargs)
    IN  IF bound.ok
        THEN [params |-> server_search_params(bound.val), sent |-> 1,
              client |-> NoResult]
        ELSE [params |-> <<>>, sent |-> 0, client |-> bound]

ClientResult(op, a, out) ==
    IF op = "search" THEN solr_search(out)
    ELSE solr_get_document(out, a.doc_id.v[1])

(***************************************************************************)
(* The search engine: one stored document, the select handler's answer to  *)
(* the query parameters it is sent (fl restricts the fields of a returned  *)
(* document, facet=true adds facet_counts, hl=true adds highlighting), and *)
(* the other answers a GET can end with.                                   *)
(***************************************************************************)
StoredDoc ==
    PyDict([id |-> PyStr(<<"doc1">>),
            title |-> PyStr(<<"Introduction to Apache Solr">>),
            author |-> PyStr(<<"John Smith">>),
            content |-> PyStr(<<"Apache Solr is an open-source search platform">>)])

FlFields(fl) == {fl.v[i] : i \in DOMAIN fl.v} \ {","}

Project(doc, params) ==
    IF "fl" \notin DOMAIN params THEN doc
    ELSE PyDict([k \in DOMAIN doc.v \cap FlFields(params["fl"]) |-> doc.v[k]])

IsOn(params, name) == name \in DOMAIN params /\ params[name] = PyStr(<<"true">>)

solr_select(op, params) ==
    IF op = "get_document"
    THEN IF params["q"] = PyStr(<<"id:", "doc1">>)
         THEN SolrEnvelope(1, <<Project(StoredDoc, params)>>)
         ELSE SolrEnvelope(0, <<>>)
    ELSE PyDict(SolrEnvelope(1, <<StoredDoc>>).v
                @@ (IF IsOn(params, "facet")
                    THEN [facet_counts |-> PyDict([facet_fields |-> params["facet.field"]])]
                    ELSE <<>>)
                @@ (IF IsOn(params, "hl")
                    THEN [highlighting |-> PyDict([doc1 |-> params["hl.fl"]])]
                    ELSE <<>>))

ResponseHeader == PyDict([status |-> PyInt(0)])

\* bodies of a 200 answer that lack the result envelope
MalformedBodies ==
    { PyDict([responseHeader |-> ResponseHeader]),
      PyDict([responseHeader |-> ResponseHeader,
              response |-> PyDict([docs |-> PyList(<<>>)])]),
      PyDict([responseHeader |-> ResponseHeader,
              response |-> PyDict([numFound |-> PyInt(1)])]),
      PyList(<<>>) }

GwOutcomes(op, params) ==
    {[kind |-> "ok", body |-> b] : b \in {solr_select(op, params)} \cup MalformedBodies}
    \cup {[kind |-> k, body |-> None] : k \in NetErrors}

(***************************************************************************)
(* Arguments.                                                              *)
(***************************************************************************)
QueryArgs == {PyStr(<<>>), MatchAll, PyStr(<<"title:solr">>)}
FilterArgs == {None, PyStr(<<>>), PyStr(<<"category:technology">>)}
SortArgs == {None, PyStr(<<>>), PyStr(<<"id asc">>)}
RowsArgs == {PyInt(10), PyInt(5), PyInt(-1)}
StartArgs == {PyInt(0), PyInt(10), PyInt(-1)}
FacetArgs == {None, PyList(<<>>), PyList(<<PyStr(<<"category">>)>>)}
HighlightArgs == {None, PyList(<<PyStr(<<"title">>)>>)}
FieldsArgs ==
    {None, PyList(<<>>), PyList(<<PyStr(<<"title">>)>>),
     PyList(<<PyStr(<<"title">>), PyStr(<<"author">>)>>),
     PyList(<<PyStr(<<"id">>), PyStr(<<"title">>)>>)}
DocIds == {PyStr(<<"doc1">>), PyStr(<<"doc9">>)}

\* direct calls of SolrClient.search: every parameter may be left out
SearchKwargs ==
    {Supplied([query |-> q, filter_query |-> f, sort |-> s, rows |-> r,
               start |-> st, facet_fields |-> ff, highlight_fields |-> hf]) :
        q \in QueryArgs \cup {None, Absent}, f \in FilterArgs \cup {Absent},
        s \in SortArgs \cup {Absent}, r \in {PyInt(5), PyInt(-1), Absent},
        st \in {PyInt(10), PyInt(-1), Absent}, ff \in FacetArgs \cup {Absent},
        hf \in HighlightArgs \cup {Absent}}

DocumentKwargs ==
    {Supplied([doc_id |-> d, fields |-> f]) :
        d \in DocIds, f \in FieldsArgs \cup {Absent}}

\* the arguments of mcp_server's tools, after FastMCP filled in the defaults
McpSearchArgs ==
    {[query |-> q, filter_query |-> f, sort |-> s, rows |-> r, start |-> st,
      facet_fields |-> ff, highlight_fields |-> hf] :
        q \in QueryArgs, f \in FilterArgs, s \in SortArgs, r \in RowsArgs,
        st \in StartArgs, ff \in FacetArgs, hf \in HighlightArgs}

McpDocumentArgs == {[id |-> d, fields |-> f] : d \in DocIds, f \in FieldsArgs}

\* http_server's SearchParams
HttpSearchArgs ==
    {[query |-> q, filter_query |-> f, sort |-> s, rows |-> r, start |-> st] :
        q \in QueryArgs, f \in FilterArgs, s \in SortArgs, r \in RowsArgs,
        st \in StartArgs}

\* the query of the resource URI solr://search/{query}
ResourceArgs == {[query |-> q] : q \in QueryArgs}

Forwarded == {"query", "filter_query", "sort", "rows", "start"}

\* the keyword arguments with which a front calls SolrClient's method
ClientKwargs(front, op, args) ==
    IF front = "SolrClient" THEN args
    ELSE IF front = "mcp_resource" THEN [query |-> args.query]
    ELSE IF op = "get_document" THEN [doc_id |-> args.id, fields |-> args.fields]
    ELSE IF front = "http_server" THEN [k \in Forwarded |-> args[k]]
    ELSE [k \in Forwarded \cup {"facet_fields", "highlight_fields"} |-> args[k]]

\* raise HTTPException(status_code=..., detail=...)
HTTPException(status_code, detail) ==
    [ok |-> FALSE, exc |-> "HTTPException", msg |-> detail,
     status_code |-> status_code]

\* json.dumps(value, indent=2): the JSON text of value
json_dumps(value) == [t |-> "str", v |-> <<"json">>, text_of |-> value]

\* what the search_solr resource does about OAuth before it searches: a
\* warning when OAuth is enabled, and no validation
search_solr_oauth_required(en) ==
    [warnings |-> 0, outcome |-> IF en THEN TokenMissing ELSE Ok(None)]

search_solr_oauth(en) ==
    [warnings |-> IF en THEN 1 ELSE 0, outcome |-> Ok(None)]

\* the search_solr resource after "results = await solr_client.search(query)"
search_solr_result(client) ==
    IF client.ok THEN Ok(json_dumps(client.val))
    ELSE IF IsInstance(client.exc, "Exception")
    THEN Ok(json_dumps(ErrorPayload(
                <<"Fehler bei der Verarbeitung der Suche: ">> \o client.msg)))
    ELSE client

tool_get_document_only_500(client) ==
    IF client.ok THEN client
    ELSE HTTPException(500, <<"Fehler beim Abrufen des Dokuments: ">> \o client.msg)

\* http_server.tool_get_document after "document = await get_document(...)"
tool_get_document_result(client) ==
    IF client.ok
    THEN IF "error" \in DOMAIN client.val.v
         THEN HTTPException(404, client.val.v["error"].v)
         ELSE client
    ELSE HTTPException(500, <<"Fehler beim Abrufen des Dokuments: ">> \o client.msg)

\* what the front makes of the outcome of SolrClient's method
FrontResult(front, op, client) ==
    IF front = "SolrClient" THEN client
    ELSE IF front = "mcp_server" THEN ToolCatch(op, client)
    ELSE IF front = "mcp_resource" THEN search_solr_result(client)
    ELSE IF op = "get_document" THEN tool_get_document_result(client)
    ELSE IF client.ok THEN client
    ELSE HTTPException(500, <<"Fehler bei der Verarbeitung der Suche: ">> \o client.msg)

(***************************************************************************)
(* Actions of the stand-alone SolrClient.                                  *)
(***************************************************************************)
gwOthers ==
    <<enabled, deploy, phase, http_client, jwks_cache, jwks_cache_expires,
      clock, pc, call, ret, cache_src, expires_src, fetched_at, fetch_seq,
      calls_made, tr, required_scopes, token_data, has_scopes, lv>>

InitSolr ==
    /\ enabled \in BOOLEAN
    /\ deploy = "mcp_server"
    /\ phase = "serving"
    /\ http_client = "None"
    /\ jwks_cache = None
    /\ jwks_cache_expires = None
    /\ clock = 0
    /\ pc = [p \in Callers |-> "idle"]
    /\ call = [p \in Callers |-> NoCall]
    /\ ret = [p \in Callers |-> NoResult]
    /\ cache_src = 0
    /\ expires_src = 0
    /\ fetched_at = None
    /\ fetch_seq = 0
    /\ calls_made = 0
    /\ tr = [p \in Callers |-> TrInit]
    /\ required_scopes = DefaultScopes
    /\ token_data = None
    /\ has_scopes = None
    /\ gw = GwIdle
    /\ lv = LvIdle

\* the front calls SolrClient's method, which runs up to its GET
GwCall(front, op, args) ==
    /\ gw.pc = "idle"
    /\ LET oauth == IF front = "mcp_resource" THEN search_solr_oauth(enabled)
                    ELSE [warnings |-> 0, outcome |-> Ok(None)]
           kwargs == IF oauth.outcome.ok THEN ClientKwargs(front, op, args)
                     ELSE <<>>
           bound == IF oauth.outcome.ok THEN Bind(Signature(op), kwargs)
                    ELSE oauth.outcome
           called == [gw EXCEPT !.front = front, !.op = op, !.args = args,
                                !.kwargs = kwargs,
                                !.warnings = oauth.warnings,
                                !.twin = IF front = "SolrClient" /\ op = "search"
                                         THEN server_search_call(kwargs)
                                         ELSE NoTwin]
       IN  gw' = IF bound.ok
                 THEN [called EXCEPT !.pc = "wait", !.sent = 1,
                                     !.params = BuildParams(op, bound.val)]
                 ELSE [called EXCEPT !.pc = "done", !.client = bound,
                                     !.result = FrontResult(front, op, bound)]
    /\ UNCHANGED gwOthers

\* the engine answers the GET
GwAnswer(out) ==
    /\ gw.pc = "wait"
    /\ LET client == ClientResult(gw.op, gw.kwargs, out)
       IN  gw' = [gw EXCEPT !.pc = "done", !.reply = out, !.client = client,
                            !.result = FrontResult(gw.front, gw.op, client),
                            !.twin = IF gw.twin.sent = 1
                                     THEN [@ EXCEPT !.client = server_solr_search(out)]
                                     ELSE @]
    /\ UNCHANGED gwOthers

\* SolrClient and http_server do not read the OAuth configuration, and the
\* tools of mcp_server with OAuth enabled are the subject of Spec: their calls
\* are explored with OAuth disabled; the search_solr resource with both.
NextSolr ==
    \/ \E a \in SearchKwargs : ~enabled /\ GwCall("SolrClient", "search", a)
    \/ \E a \in DocumentKwargs : ~enabled /\ GwCall("SolrClient", "get_document", a)
    \/ \E a \in McpSearchArgs : ~enabled /\ GwCall("mcp_server", "search", a)
    \/ \E a \in McpDocumentArgs : ~enabled /\ GwCall("mcp_server", "get_document", a)
    \/ \E a \in HttpSearchArgs : ~enabled /\ GwCall("http_server", "search", a)
    \/ \E a \in McpDocumentArgs : ~enabled /\ GwCall("http_server", "get_document", a)
    \/ \E a \in ResourceArgs : GwCall("mcp_resource", "search", a)
    \/ gw.pc = "wait" /\ \E out \in GwOutcomes(gw.op, gw.params) : GwAnswer(out)

SpecSolr == InitSolr /\ [][NextSolr]_vars

(***************************************************************************)
(* Properties of SolrClient and of the tools in front of it.               *)
(***************************************************************************)
GwDone(op) == gw.pc = "done" /\ gw.op = op

\* the argument name of the call is passed and its value is non-empty
Given(name) == name \in DOMAIN gw.args /\ Truthy(gw.args[name])

\* the engine answered 200 with the answer of its select handler
EngineAnswered ==
    gw.reply.kind = "ok" /\ gw.reply.body = solr_select(gw.op, gw.params)

\* C12: a finished search that was given facet fields has sent a query with
\* facet=true and facet.field equal to those fields; one that was given
\* highlight fields has sent a query with hl=true and hl.fl equal to those
\* fields, and the engine's answer it returns has a highlighting section.
C12_FacetAndHighlightParams ==
    GwDone("search") =>
        /\ Given("facet_fields") =>
              /\ gw.sent = 1
              /\ IsOn(gw.params, "facet")
              /\ gw.params["facet.field"] = gw.args["facet_fields"]
        /\ Given("highlight_fields") =>
              /\ gw.sent = 1
              /\ IsOn(gw.params, "hl")
              /\ gw.params["hl.fl"] = gw.args["highlight_fields"]
              /\ EngineAnswered =>
                    /\ gw.result.ok
                    /\ "highlighting" \in DOMAIN gw.result.val.v

\* the keyword argument of SolrClient's method is passed as a non-empty string
NonEmpty(name) ==
    /\ name \in DOMAIN gw.kwargs
    /\ gw.kwargs[name].t = "str"
    /\ Len(gw.kwargs[name].v) > 0

\* SolrClient.search was called with parameters it has
SearchEntered == gw.op = "search" /\ gw.pc # "idle" /\ DOMAIN gw.kwargs \subseteq Forwarded

FacetParams == {"facet", "facet.field"}
HighlightParams == {"hl", "hl.fl"}

\* C14: in every query SolrClient.search sends, fq is present iff
\* filter_query is a non-empty string and then equals it, sort likewise, a
\* call without facet (highlight) fields sends no facet (highlight)
\* parameter, and no parameter has an empty value.
C14_OptionalParamsOmitted ==
    (gw.op = "search" /\ gw.sent = 1) =>
        /\ ("fq" \in DOMAIN gw.params) = NonEmpty("filter_query")
        /\ "fq" \in DOMAIN gw.params => gw.params["fq"] = gw.kwargs["filter_query"]
        /\ ("sort" \in DOMAIN gw.params) = NonEmpty("sort")
        /\ "sort" \in DOMAIN gw.params => gw.params["sort"] = gw.kwargs["sort"]
        /\ ~Given("facet_fields") => DOMAIN gw.params \cap FacetParams = {}
        /\ ~Given("highlight_fields") => DOMAIN gw.params \cap HighlightParams = {}
        /\ \A k \in DOMAIN gw.params : Truthy(gw.params[k]) \/ gw.params[k].t = "int"

C14_Witness ==
    /\ gw.op = "search" /\ gw.sent = 1 /\ gw.front = "SolrClient"
    /\ "filter_query" \in DOMAIN gw.kwargs /\ gw.kwargs["filter_query"] = PyStr(<<>>)
    /\ NonEmpty("sort")
    /\ "fq" \notin DOMAIN gw.params /\ "sort" \in DOMAIN gw.params

\* C15: when the GET of SolrClient.search ends with a transport or parse
\* error the method returns an {error: message} payload, when it ends with
\* an HTTP error status the HTTPStatusError is raised to the caller, and
\* nothing else is raised.
C15_SearchErrorsNormalized ==
    (GwDone("search") /\ gw.sent = 1) =>
        /\ gw.reply.kind \in NetErrors \ {"HTTPStatusError"} =>
              gw.client.ok /\ IsErrorPayload(gw.client.val)
        /\ gw.reply.kind = "HTTPStatusError" =>
              ~gw.client.ok /\ gw.client.exc = "HTTPStatusError"
        /\ ~gw.client.ok => gw.reply.kind = "HTTPStatusError"

C15_Witness ==
    /\ GwDone("search") /\ gw.front = "SolrClient"
    /\ gw.reply.kind = "JSONDecodeError"
    /\ gw.result.ok /\ IsErrorPayload(gw.result.val)

NotFound(doc_id) ==
    ErrorPayload(<<"Dokument mit ID ", doc_id.v[1], " nicht gefunden">>)

\* the result section of the engine's answer
ReplyResponse == gw.reply.body.v["response"].v

\* C16: when the engine answers a get_document request with its result
\* envelope, SolrClient.get_document returns and does not raise: the
\* not-found error payload when the answer has zero matches, and otherwise
\* the answer's first document, which is no error payload.
C16_NotFoundIsErrorPayload ==
    (GwDone("get_document") /\ EngineAnswered) =>
        /\ gw.client.ok
        /\ IF ReplyResponse["numFound"] = PyInt(0)
           THEN gw.client.val = NotFound(gw.kwargs["doc_id"])
           ELSE /\ gw.client.val = ReplyResponse["docs"].v[1]
                /\ ~IsErrorPayload(gw.client.val)

C16_Witness ==
    /\ GwDone("get_document") /\ EngineAnswered
    /\ gw.kwargs["doc_id"] = PyStr(<<"doc9">>)
    /\ ReplyResponse["numFound"] = PyInt(0)
    /\ gw.result = Ok(NotFound(gw.kwargs["doc_id"]))

\* the names in the caller's field list
FieldNames(fields) == {fields.v[i].v[1] : i \in DOMAIN fields.v}

\* C17: get_document of the stored document with a non-empty field list
\* returns a document whose fields are exactly the listed ones and id.
C17_ExactlyFieldsPlusId ==
    (GwDone("get_document") /\ EngineAnswered /\ Given("fields")
       /\ gw.kwargs["doc_id"] = StoredDoc.v["id"]) =>
        /\ gw.result.ok
        /\ DOMAIN gw.result.val.v = FieldNames(gw.args["fields"]) \cup {"id"}

\* C18: when the engine answers 200 with a body that lacks the result
\* envelope, SolrClient.search and SolrClient.get_document return an
\* {error: message} payload.
C18_MalformedBodyIsError ==
    (gw.pc = "done" /\ gw.sent = 1 /\ gw.reply.kind = "ok"
       /\ gw.reply.body \in MalformedBodies) =>
        /\ gw.client.ok
        /\ IsErrorPayload(gw.client.val)

\* C19: check_scopes applied to the claim set that validate_token returns
\* with OAuth disabled is true, whatever scopes the configuration requires.
C19_SentinelGrantsAllScopes ==
    (token_data = Sentinel /\ has_scopes # None) => has_scopes = PyBool(TRUE)

\* C20: a finished invocation of a search tool has called SolrClient.search
\* with the caller's query, filter_query, sort, rows and start unchanged,
\* that call was carried out with its one request to the engine, and when
\* it returned the tool returned its result unmodified.
C20_SearchToolForwards ==
    (GwDone("search") /\ gw.front \in {"mcp_server", "http_server"}) =>
        /\ \A k \in Forwarded : k \in DOMAIN gw.kwargs /\ gw.kwargs[k] = gw.args[k]
        /\ gw.sent = 1
        /\ gw.client.ok => gw.result = gw.client


\* C21: every search query sent to the engine carries rows >= 0 and
\* start >= 0, with rows = 10 and start = 0 when the caller supplied none;
\* no call sends a negative rows or start.
C21_RowsAndStartNonNegative ==
    (gw.op = "search" /\ gw.sent = 1) =>
        /\ gw.params["rows"].v >= 0
        /\ gw.params["start"].v >= 0
        /\ "rows" \notin DOMAIN gw.kwargs => gw.params["rows"] = PyInt(10)
        /\ "start" \notin DOMAIN gw.kwargs => gw.params["start"] = PyInt(0)

\* the part of C21 that the code keeps: the defaults of an omitted rows/start
C21_DefaultsWhenOmitted ==
    (gw.op = "search" /\ gw.sent = 1) =>
        /\ "rows" \notin DOMAIN gw.kwargs => gw.params["rows"] = PyInt(10)
        /\ "start" \notin DOMAIN gw.kwargs => gw.params["start"] = PyInt(0)


(***************************************************************************)
(* validate_token_local on its own: one call with a token, the key set     *)
(* that _fetch_jwks returned and the time of the call.                     *)
(***************************************************************************)
LocalPayloads ==
    {PyDict(Supplied([exp |-> e, aud |-> a, iss |-> i, scope |-> FullScope])) :
        e \in {PyInt(1), PyInt(Later), Absent},
        a \in {Audience, PyStr(<<"other-client">>), Absent},
        i \in {Issuer, PyStr(<<"http://localhost:8080/realms/other">>), Absent}}

LocalTokens ==
    {GarbageToken} \cup
    {Jwt(alg, kid, sig, payload) :
        alg \in {"RS256", "HS256"},
        kid \in {None, PyStr(<<"k1">>), PyStr(<<"k3">>)},
        sig \in {PyStr(<<"n1">>), PyStr(<<"n2">>), PyStr(<<"forged">>)},
        payload \in LocalPayloads}

LocalJwks == JwksBodies \cup {Jwks(<<Key("k2", "n2"), Key("k1", "n1")>>)}

LocalTimes == {0, 2}

lvOthers ==
    <<enabled, deploy, phase, http_client, jwks_cache, jwks_cache_expires,
      clock, pc, call, ret, cache_src, expires_src, fetched_at, fetch_seq,
      calls_made, tr, required_scopes, token_data, has_scopes, gw>>

InitLocal ==
    /\ enabled = TRUE
    /\ deploy = "library"
    /\ phase = "serving"
    /\ http_client = "None"
    /\ jwks_cache = None
    /\ jwks_cache_expires = None
    /\ clock = 0
    /\ pc = [p \in Callers |-> "idle"]
    /\ call = [p \in Callers |-> NoCall]
    /\ ret = [p \in Callers |-> NoResult]
    /\ cache_src = 0
    /\ expires_src = 0
    /\ fetched_at = None
    /\ fetch_seq = 0
    /\ calls_made = 0
    /\ tr = [p \in Callers |-> TrInit]
    /\ required_scopes = DefaultScopes
    /\ token_data = None
    /\ has_scopes = None
    /\ gw = GwIdle
    /\ lv \in {[pc |-> "idle", token |-> t, jwks |-> j, now |-> n,
                result |-> NoResult] :
                  t \in LocalTokens, j \in LocalJwks, n \in LocalTimes}

ValidateLocal ==
    /\ lv.pc = "idle"
    /\ lv' = [lv EXCEPT !.pc = "done",
                        !.result = validate_token_local(lv.token, lv.jwks, lv.now)]
    /\ UNCHANGED lvOthers

NextLocal == ValidateLocal

SpecLocal == InitLocal /\ [][NextLocal]_vars

\* the key of the given key set whose kid is the token's verifies the token
SignedByItsKey ==
    LET keys == lv.jwks.v["keys"].v
    IN  \E i \in DOMAIN keys :
            /\ keys[i].v["kid"] = DictGet(lv.token.header, "kid", None)
            /\ keys[i].v["n"] = lv.token.sig

LocalExpired ==
    /\ "exp" \in DOMAIN lv.token.payload.v
    /\ lv.token.payload.v["exp"].v < lv.now

\* C22: validate_token_local returns claims only if the token's header has
\* a kid, the key set has a key with exactly that kid and that key verifies
\* the RS256 signature, the token's audience is the expected audience, its
\* issuer is {keycloak_url}/realms/{realm} and it is not expired; what it
\* returns then are the token's claims.
C22_LocalValidationChecksAll ==
    (lv.pc = "done" /\ lv.result.ok) =>
        /\ WellFormed(lv.token)
        /\ DictGet(lv.token.header, "kid", None) # None
        /\ SignedByItsKey
        /\ DictGet(lv.token.header, "alg", None) = PyStr(<<"RS256">>)
        /\ DictGet(lv.token.payload, "aud", None) = Audience
        /\ DictGet(lv.token.payload, "iss", None) = Issuer
        /\ ~LocalExpired
        /\ lv.result.val = lv.token.payload

\* what the code keeps of C22: every condition but the audience of a token
\* that carries no aud claim
C22_AllButMissingAudience ==
    (lv.pc = "done" /\ lv.result.ok) =>
        /\ WellFormed(lv.token)
        /\ DictGet(lv.token.header, "kid", None) # None
        /\ SignedByItsKey
        /\ DictGet(lv.token.header, "alg", None) = PyStr(<<"RS256">>)
        /\ DictGet(lv.token.payload, "aud", Audience) = Audience
        /\ DictGet(lv.token.payload, "iss", None) = Issuer
        /\ ~LocalExpired
        /\ lv.result.val = lv.token.payload


\* C23: with OAuth enabled, validate_token with use_introspection=True only
\* posts to the introspection endpoint and never consults or fetches the
\* JWKS; without it (the tools' case) it only validates locally against the
\* JWKS, cached or fetched, and never posts to the introspection endpoint.
C23_StrategyExclusive ==
    \A p \in Callers :
        (enabled /\ pc[p] # "idle" /\ call[p].op \in Tools \cup {"validate_token"}
                 /\ (call[p].op \in Tools => Truthy(call[p].token))) =>
            /\ call[p].op \in Tools => ~call[p].intro
            /\ call[p].intro =>
                  /\ tr[p].posts = 1
                  /\ tr[p].gets = 0
                  /\ tr[p].look = "none"
                  /\ pc[p] # "jwks_wait"
            /\ ~call[p].intro =>
                  /\ tr[p].posts = 0
                  /\ tr[p].look # "none"
                  /\ tr[p].look # "hit" => tr[p].gets = 1
                  /\ pc[p] # "intro_wait"

C23_Witness ==
    \E p, q \in Callers :
        /\ enabled
        /\ pc[p] = "done" /\ call[p].op = "validate_token" /\ call[p].intro
        /\ ret[p].ok /\ tr[p].posts = 1 /\ tr[p].gets = 0
        /\ pc[q] = "jwks_wait" /\ call[q].op \in Tools /\ tr[q].posts = 0


\* a direct call of SolrClient.search with a str query, which both SolrClients
\* accept
BothSearches ==
    /\ gw.front = "SolrClient" /\ gw.op = "search" /\ gw.pc # "idle"
    /\ DOMAIN gw.kwargs \subseteq Forwarded
    /\ "query" \in DOMAIN gw.kwargs /\ gw.kwargs["query"] # None

\* C24: SolrClient.search of src/server.py and of src/server/solr_client.py
\* send the same query parameters for the same call and end with the same
\* outcome for the same answer of the engine, an empty query and an HTTP
\* error status included.
C24_SearchVariantsAgree ==
    BothSearches =>
        /\ gw.twin.sent = gw.sent
        /\ gw.twin.params = gw.params
        /\ gw.twin.client = gw.client

\* where the two agree: a non-empty query and an answer with status 200
C24_AgreeOnAnsweredQuery ==
    (BothSearches /\ Truthy(gw.kwargs["query"])
                  /\ (gw.pc = "done" => gw.reply.kind = "ok")) =>
        /\ gw.twin.sent = gw.sent
        /\ gw.twin.params = gw.params
        /\ gw.twin.client = gw.client

\* the second case C24 names, which fails as well: the same query was sent
\* and the engine answered with an HTTP error status
C24_AgreeOnHttpError ==
    (BothSearches /\ gw.pc = "done" /\ gw.twin.sent = 1 /\ gw.sent = 1
                  /\ gw.twin.params = gw.params
                  /\ gw.reply.kind = "HTTPStatusError") =>
        gw.twin.client = gw.client


(***************************************************************************)
(* The tools under the assumption that every outbound HTTP call that is    *)
(* awaited answers or fails, and that a finished coroutine returns to its  *)
(* caller: at most MaxLiveCalls invocations of the tools, by two callers.  *)
(***************************************************************************)
MaxLiveCalls == 2

LiveCalls ==
    {[op |-> o, token |-> t, intro |-> FALSE] :
        o \in Tools, t \in {None, GoodToken, ExpiringToken}}

NextLive ==
    \/ Tick
    \/ LifespanStart
    \/ \E out \in JwksOutcomes : LifespanFetched(out)
    \/ \E p \in Callers, c \in LiveCalls :
           calls_made < MaxLiveCalls /\ Invoke(p, c)
    \/ \E p \in Callers, out \in JwksOutcomes : JwksAnswer(p, out)
    \/ \E p \in Callers, out \in SolrOutcomes : SolrAnswer(p, out)
    \/ \E p \in Callers : Return(p)

Failures(outcomes) == {out \in outcomes : out.kind # "ok"}
Answers(outcomes) == {out \in outcomes : out.kind = "ok"}

\* the HTTP call that p awaits fails or answers
HttpAnswers(p) ==
    \/ \E out \in Failures(JwksOutcomes) : JwksAnswer(p, out)
    \/ \E out \in Failures(SolrOutcomes) : SolrAnswer(p, out)
    \/ \E out \in Answers(JwksOutcomes) : JwksAnswer(p, out)
    \/ \E out \in Answers(SolrOutcomes) : SolrAnswer(p, out)

SpecLive ==
    /\ Init /\ [][NextLive]_vars
    /\ \A p \in Callers : WF_vars(HttpAnswers(p)) /\ WF_vars(Return(p))

\* the same, but only the HTTP calls of caller 1 are sure to end
SpecLiveOne ==
    /\ Init /\ [][NextLive]_vars
    /\ WF_vars(HttpAnswers(1))
    /\ \A p \in Callers : WF_vars(Return(p))

\* C25: every invocation of a tool eventually completes.
C25_ToolInvocationCompletes ==
    \A p \in Callers :
        (call[p].op \in Tools /\ pc[p] # "idle") ~> (pc[p] = "done")

\* a tool invocation has completed after both of its awaits while the other
\* caller's invocation is still waiting for its answer
\* no invocation waits on another: caller 1's invocation completes even if
\* the HTTP calls of the other caller never end
C25_CallerOneCompletes ==
    (call[1].op \in Tools /\ pc[1] # "idle") ~> (pc[1] = "done")

C25_Witness ==
    \E p, q \in Callers :
        /\ pc[p] = "done" /\ call[p].op \in Tools
        /\ tr[p].gets = 1 /\ tr[p].solr = 1
        /\ pc[q] \in {"jwks_wait", "solr_wait"} /\ call[q].op \in Tools


\* C26: in the mcp_server deployment with OAuth enabled, every fetch of the
\* JWKS that a tool invocation issues after the lifespan startup goes out on
\* an open HTTP client, never on the client that was closed when
\* "async with token_validator" exited, and does not fail for a closed client.
C26_FetchOnOpenClient ==
    \A p \in Callers :
        (deploy = "mcp_server" /\ enabled /\ phase = "serving"
            /\ pc[p] # "idle" /\ tr[p].gets = 1) =>
            /\ http_client = "open"
            /\ tr[p].vres # ClientClosed


\* p's call of _fetch_jwks or of validate_token_local has just ended after
\* its own GET of the JWKS answered
OwnFetchDone(p) ==
    /\ pc[p] = "done"
    /\ call[p].op \in {"fetch_jwks", "validate_token"} /\ ~call[p].intro
    /\ tr[p].gets = 1 /\ tr[p].answer.kind = "ok"

\* C27: callers of _fetch_jwks that find the cache absent or expired each
\* issue a GET of their own, whether or not another fetch is in flight; a
\* caller returns the key set of its own GET; and when a caller finishes, the
\* cache holds the key set and the expiry that this caller wrote, so after
\* all have finished it holds those of the last finisher.
C27_NoSingleFlightLastWins ==
    \A p \in Callers :
        /\ pc[p] = "jwks_wait" =>
              /\ tr[p].gets = 1 /\ tr[p].look \in {"absent", "expired"}
              /\ tr[p].fetch > 0
              /\ \A q \in Callers \ {p} :
                    pc[q] = "jwks_wait" => tr[q].fetch # tr[p].fetch
        /\ (pc[p] # "idle" /\ tr[p].look \in {"absent", "expired"}) => tr[p].gets = 1
        /\ OwnFetchDone(p) =>
              /\ call[p].op = "fetch_jwks" => ret[p] = Ok(tr[p].answer.body)
              /\ jwks_cache = tr[p].answer.body
              /\ jwks_cache_expires = DateTime(clock + OneHour)
              /\ cache_src = tr[p].fetch /\ expires_src = tr[p].fetch

\* p and q both found no cache and sent a GET each; p's, sent first, has
\* answered while q's is still in flight
C27_Witness ==
    \E p, q \in Callers :
        /\ OwnFetchDone(p) /\ call[p].op = "fetch_jwks" /\ tr[p].look = "absent"
        /\ pc[q] = "jwks_wait" /\ tr[q].look = "absent"
        /\ tr[q].fetch > tr[p].fetch

\* the last of two overlapping fetches has finished with another key set
\* than the one the first finisher had cached
C27_WitnessLastFinisher ==
    \E p \in Callers :
        /\ OwnFetchDone(p) /\ call[p].op = "fetch_jwks" /\ tr[p].look = "absent"
        /\ fetch_seq > tr[p].fetch
        /\ \A q \in Callers : pc[q] # "jwks_wait"
        /\ jwks_cache = tr[p].answer.body


\* the GET of the JWKS that p awaited has just failed
C28_FetchFailed(p) ==
    /\ pc[p] = "jwks_wait" /\ pc'[p] # "jwks_wait"
    /\ tr'[p].answer.kind \in NetErrors

C28_Step ==
    \A p \in Callers :
        C28_FetchFailed(p) =>
            /\ jwks_cache' = jwks_cache
            /\ jwks_cache_expires' = jwks_cache_expires
            /\ call[p].op = "fetch_jwks" =>
                  /\ pc'[p] = "done"
                  /\ ~ret'[p].ok /\ ret'[p].exc = tr'[p].answer.kind
            /\ call[p].op # "fetch_jwks" => ~tr'[p].vres.ok

\* a call that needs the key set and finds the cache absent or expired
\* attempts a GET, whatever happened to earlier fetches
C28_FetchesAgain ==
    \A p \in Callers :
        (pc[p] # "idle" /\ tr[p].look # "none") =>
            /\ tr[p].look = "hit" => tr[p].gets = 0
            /\ tr[p].look # "hit" => tr[p].gets = 1

\* C28: a fetch of the JWKS that fails, by a transport error, a non-success
\* status or an unparsable body, raises to its caller and leaves the cached
\* key set and its expiry exactly as they were; an expired key set is never
\* returned instead, and a later call that finds the cache absent or expired
\* attempts a fetch again.
C28_FailedFetchKeepsCache == [][C28_Step]_vars /\ []C28_FetchesAgain

\* a fetch over an expired key set has failed: the call raised and the
\* expired key set is still cached
C28_Witness ==
    \E p \in Callers :
        /\ pc[p] = "done" /\ call[p].op = "fetch_jwks"
        /\ tr[p].look = "expired" /\ tr[p].answer.kind \in NetErrors
        /\ ~ret[p].ok
        /\ jwks_cache # None
        /\ ~CacheFresh(jwks_cache, jwks_cache_expires, clock)


\* C29: the solr://search/{query} resource validates no token: with OAuth
\* enabled it emits one warning, sends the query to the engine all the same
\* and returns the engine's answer as JSON text; the validator is not used.
C29_ResourceSkipsValidation ==
    (gw.front = "mcp_resource" /\ gw.pc # "idle") =>
        /\ gw.warnings = (IF enabled THEN 1 ELSE 0)
        /\ gw.sent = 1
        /\ gw.params["q"] = (IF Truthy(gw.args.query) THEN gw.args.query
                             ELSE MatchAll)
        /\ fetch_seq = 0 /\ http_client = "None" /\ jwks_cache = None
        /\ (gw.pc = "done" /\ gw.reply.kind = "ok") =>
              gw.result = Ok(json_dumps(gw.reply.body))

C29_Witness ==
    /\ enabled
    /\ gw.front = "mcp_resource" /\ gw.pc = "done" /\ gw.warnings = 1
    /\ gw.args.query = PyStr(<<"title:solr">>)
    /\ EngineAnswered
    /\ gw.result = Ok(json_dumps(solr_select("search", gw.params)))

\* http_server's tool_get_document has finished
HttpGetDocumentDone ==
    gw.front = "http_server" /\ GwDone("get_document")

\* C30: http_server's tool_get_document answers 404 for every error payload
\* that SolrClient.get_document returns (document not found, transport
\* failure, malformed response), 500 exactly when get_document raises, which
\* it does for an HTTP error status of the engine, and the document itself,
\* unchanged, otherwise.
C30_GetDocumentStatusCodes ==
    HttpGetDocumentDone =>
        /\ (gw.client.ok /\ IsErrorPayload(gw.client.val)) =>
              /\ ~gw.result.ok /\ gw.result.exc = "HTTPException"
              /\ gw.result.status_code = 404
              /\ gw.result.msg = gw.client.val.v["error"].v
        /\ ~gw.client.ok =>
              /\ ~gw.result.ok /\ gw.result.exc = "HTTPException"
              /\ gw.result.status_code = 500
              /\ gw.reply.kind = "HTTPStatusError"
        /\ (gw.client.ok /\ ~IsErrorPayload(gw.client.val)) =>
              gw.result = gw.client
        /\ gw.reply.kind \in NetErrors \ {"HTTPStatusError"} =>
              ~gw.result.ok /\ gw.result.status_code = 404
        /\ (gw.reply.kind = "ok" /\ gw.reply.body \in MalformedBodies) =>
              ~gw.result.ok /\ gw.result.status_code = 404
        /\ (EngineAnswered /\ ReplyResponse["numFound"] = PyInt(0)) =>
              ~gw.result.ok /\ gw.result.status_code = 404
        /\ (EngineAnswered /\ ReplyResponse["numFound"] # PyInt(0)) =>
              gw.result = Ok(ReplyResponse["docs"].v[1])

\* a transport failure has been answered with 404
C30_Witness ==
    /\ HttpGetDocumentDone
    /\ gw.reply.kind = "ConnectError"
    /\ ~gw.result.ok /\ gw.result.status_code = 404

C30_WitnessFound ==
    /\ HttpGetDocumentDone /\ EngineAnswered
    /\ ReplyResponse["numFound"] # PyInt(0)
    /\ gw.result.ok /\ gw.result = gw.client

C30_Witness500 ==
    /\ HttpGetDocumentDone /\ gw.reply.kind = "HTTPStatusError"
    /\ ~gw.result.ok /\ gw.result.status_code = 500

====
